---- MODULE Spec2Model ----
(***************************************************************************)
(* Model of serveStatic (src/static.ts): the start-up check of the build   *)
(* directory, the two handlers it installs on the Express pipeline (the    *)
(* express.static asset handler and the "/{*path}" fallback that sends     *)
(* index.html), a server bootstrap as in the README (API router, then      *)
(* serveStatic, then listen), and requests travelling through the          *)
(* pipeline one layer at a time, interleaved with one another.             *)
(*                                                                         *)
(* A URL path is a record [segs, slash]: its segments and whether it ends  *)
(* in "/".  A file of the build directory is the sequence of its segments  *)
(* relative to that directory.  A Cache-Control value is the sequence of   *)
(* its directives, each [n |-> name, a |-> argument or NoArg].             *)
(***************************************************************************)
EXTENDS Integers, Sequences, FiniteSets, TLC

\* ------------------------------------------------------------------ bounds
\* number of requests that may be in flight together
MaxReqs == 2
\* the same, in the specification with fairness
MaxLive == 1

\* ------------------------------------------------------------- file system
IndexName == "index.html"
IndexFile == <<IndexName>>
AssetFile == <<"assets", "app-3f2a1b.js">>
DotFile   == <<".vite", "manifest.json">>

\* path segments that begin with "."
DotSegments == {".vite", ".cache"}

\* the values path.resolve(__dirname, "public") takes in the model: an
\* ordinary deployment directory and one below a dot-directory
PlainDist  == <<"home", "runner", "workspace", "dist", "public">>
DottedDist == <<"home", "runner", ".cache", "dist", "public">>

\* the build directories of the model: missing, complete, without index.html
BuildDirs ==
  { [exists |-> FALSE, files |-> {}],
    [exists |-> TRUE,  files |-> {IndexFile, AssetFile, DotFile}],
    [exists |-> TRUE,  files |-> {AssetFile, DotFile}] }

IsPrefix(p, s) == Len(p) <= Len(s) /\ SubSeq(s, 1, Len(p)) = p

\* fs.existsSync(distPath)
existsSync(dir) == dir.exists

IsFile(dir, segs) == dir.exists /\ segs \in dir.files

IsDirectory(dir, segs) ==
  /\ dir.exists
  /\ segs = <<>> \/ \E f \in dir.files : Len(f) > Len(segs) /\ IsPrefix(segs, f)

\* ---------------------------------------------------------------- requests
Methods == {"GET", "HEAD", "POST"}

\* the request's conditional and range headers, by what they make send do:
\*   none     no such header
\*   fresh    If-None-Match / If-Modified-Since that match the file
\*   precond  If-Match / If-Unmodified-Since that fail
\*   range    a satisfiable single Range
\*   badrange an unsatisfiable Range
Conds == {"none", "fresh", "precond", "range", "badrange"}

P(segs, slash) == [segs |-> segs, slash |-> slash]

RootPath     == P(<<>>, TRUE)
IndexPath    == P(IndexFile, FALSE)
AssetPath    == P(AssetFile, FALSE)
DotPath      == P(DotFile, FALSE)
DirPath      == P(<<"assets">>, FALSE)
DirSlashPath == P(<<"assets">>, TRUE)
SpaPath      == P(<<"dashboard", "settings">>, FALSE)
ApiPath      == P(<<"api", "users">>, FALSE)
ApiMissPath  == P(<<"api", "nope">>, FALSE)

Paths == {RootPath, IndexPath, AssetPath, DotPath, DirPath, DirSlashPath,
          SpaPath, ApiPath, ApiMissPath}

Requests == [method : Methods, path : Paths, cond : Conds]

\* the requests the other slots draw from while slot 1 ranges over Requests
Traffic ==
  { [method |-> "GET",  path |-> AssetPath, cond |-> "none"],
    [method |-> "GET",  path |-> SpaPath,   cond |-> "none"],
    [method |-> "GET",  path |-> IndexPath, cond |-> "badrange"] }

NoReq == [method |-> "GET", path |-> RootPath, cond |-> "none"]

\* --------------------------------------------------------------- responses
NoArg == -1
D(name) == [n |-> name, a |-> NoArg]
DA(name, arg) == [n |-> name, a |-> arg]

NoBody == [kind |-> "none", of |-> <<>>]
FileBody(f) == [kind |-> "file", of |-> f]
PartBody(f) == [kind |-> "partial", of |-> f]
HtmlBody(f) == [kind |-> "redirect", of |-> f]
JsonBody == [kind |-> "json", of |-> <<>>]

\* a fresh ServerResponse: statusCode 200, no header set, nothing written
NewRes ==
  [status |-> 200, cacheControl |-> <<>>, pragma |-> "", expires |-> "",
   etag |-> FALSE, location |-> <<>>, body |-> NoBody]

\* ------------------------------------------------------------ send (files)
\* ms("1y") is 365.25 days; send caps maxAge at MAX_MAXAGE, 365 days.  Both
\* are kept in seconds (send divides the capped milliseconds by 1000).
MsYear == 31557600
MAX_MAXAGE == 31536000

ms(str) == IF str = "1y" THEN MsYear ELSE 0

Min(a, b) == IF a < b THEN a ELSE b
Max(a, b) == IF a > b THEN a ELSE b

\* the options express.static is given, and serve-static's defaults
StaticOptions ==
  [maxAge |-> "1y", immutable |-> TRUE, index |-> FALSE,
   dotfiles |-> "ignore", fallthrough |-> TRUE, redirect |-> TRUE]

\* res.sendFile's defaults (no option is passed)
SendFileOptions ==
  [maxAge |-> "0", immutable |-> FALSE, index |-> TRUE,
   dotfiles |-> "ignore", fallthrough |-> FALSE, redirect |-> FALSE]

\* CacheControlOf without send's cap on maxAge
CacheControlOf_Uncapped(opts) ==
  <<D("public"), DA("max-age", Max(0, ms(opts.maxAge)))>>
    \o (IF opts.immutable THEN <<D("immutable")>> ELSE <<>>)

\* the Cache-Control value send derives from maxAge and immutable
CacheControlOf(opts) ==
  <<D("public"), DA("max-age", Min(Max(0, ms(opts.maxAge)), MAX_MAXAGE))>>
    \o (IF opts.immutable THEN <<D("immutable")>> ELSE <<>>)

containsDotFile(parts) == \E i \in 1..Len(parts) : parts[i] \in DotSegments

Stat(dir, segs, slash) ==
  IF IsFile(dir, segs) THEN (IF slash THEN "ENOTDIR" ELSE "file")
  ELSE IF IsDirectory(dir, segs) THEN "dir"
  ELSE "ENOENT"

SendEnd(res)             == [kind |-> "end", res |-> res, code |-> 0, found |-> TRUE]
SendError(res, c, found) == [kind |-> "error", res |-> res, code |-> c, found |-> found]
SendDirectory(res)       == [kind |-> "directory", res |-> res, code |-> 0, found |-> FALSE]

\* SendStream.send: the file was found by stat
SendFound(res, req, file, opts) ==
  LET hdr == [res EXCEPT
                !.cacheControl = IF res.cacheControl = <<>>
                                 THEN CacheControlOf(opts) ELSE @,
                !.etag = TRUE]
  IN  CASE req.cond = "precond"  -> SendError(hdr, 412, TRUE)
        [] req.cond = "fresh"    -> SendEnd([hdr EXCEPT !.status = 304])
        [] req.cond = "badrange" -> SendError(hdr, 416, TRUE)
        [] req.cond = "range"    ->
             SendEnd([hdr EXCEPT !.status = 206,
                        !.body = IF req.method = "HEAD" THEN NoBody
                                 ELSE PartBody(file)])
        [] OTHER ->
             SendEnd([hdr EXCEPT
                        !.body = IF req.method = "HEAD" THEN NoBody
                                 ELSE FileBody(file)])

\* send(req, path, opts): parts are the segments examined for dotfiles, rel
\* the same file relative to the build directory
Send(res, req, dir, parts, rel, slash, opts) ==
  IF containsDotFile(parts) /\ opts.dotfiles = "ignore"
  THEN SendError(res, 404, FALSE)
  ELSE IF opts.index /\ slash
  THEN IF IsFile(dir, rel \o IndexFile)
       THEN SendFound(res, req, rel \o IndexFile, opts)
       ELSE SendError(res, 404, FALSE)
  ELSE CASE Stat(dir, rel, slash) = "file" -> SendFound(res, req, rel, opts)
         [] Stat(dir, rel, slash) = "dir"  -> SendDirectory(res)
         [] OTHER -> SendError(res, 404, FALSE)

\* ---------------------------------------------------------------- handlers
\* what a handler does with a request: end the response, call next(), or
\* call next(err) with err.status = code
CallEnd(res)        == [kind |-> "end", res |-> res, code |-> 0]
CallNext(res)       == [kind |-> "next", res |-> res, code |-> 0]
CallNextErr(res, c) == [kind |-> "error", res |-> res, code |-> c]

\* path.resolve(base, name)
resolve(base, name) == base \o <<name>>

\* StaticHandler falling through on every error below 500, also once the
\* file was found
StaticHandler_NoForward(res, req, dir, root) ==
  IF req.method \notin {"GET", "HEAD"}
  THEN CallNext(res)
  ELSE LET r == Send(res, req, dir, req.path.segs, req.path.segs,
                     req.path.slash, StaticOptions)
       IN  CASE r.kind = "end" -> CallEnd(r.res)
             [] r.kind = "directory" ->
                  IF req.path.slash
                  THEN CallNext(r.res)
                  ELSE CallEnd([r.res EXCEPT !.status = 301,
                                  !.location = req.path.segs,
                                  !.body = HtmlBody(req.path.segs)])
             [] OTHER ->
                  IF r.code >= 500
                  THEN CallNextErr(r.res, r.code) ELSE CallNext(r.res)

\* express.static(root, StaticOptions)
StaticHandler(res, req, dir, root) ==
  IF req.method \notin {"GET", "HEAD"}
  THEN CallNext(res)
  ELSE LET r == Send(res, req, dir, req.path.segs, req.path.segs,
                     req.path.slash, StaticOptions)
       IN  CASE r.kind = "end" -> CallEnd(r.res)
             [] r.kind = "directory" ->
                  IF req.path.slash
                  THEN CallNext(r.res)
                  ELSE CallEnd([r.res EXCEPT !.status = 301,
                              !.location = req.path.segs,
                              !.body = HtmlBody(req.path.segs)])
             [] OTHER ->
                  IF r.found \/ r.code >= 500
                  THEN CallNextErr(r.res, r.code) ELSE CallNext(r.res)

NoCacheControl == <<D("no-cache"), D("no-store"), D("must-revalidate")>>

\* FallbackHandler calling next() where sendFile fails
FallbackHandler_Swallow(res, req, dir, root) ==
  LET hdr == [res EXCEPT !.cacheControl = NoCacheControl,
                         !.pragma = "no-cache", !.expires = "0"]
      abs == resolve(root, IndexName)
      r   == Send(hdr, req, dir, abs, SubSeq(abs, Len(root) + 1, Len(abs)),
                  FALSE, SendFileOptions)
  IN  IF r.kind = "end" THEN CallEnd(r.res) ELSE CallNext(r.res)

\* the handler of app.use("/{*path}", ...)
FallbackHandler(res, req, dir, root) ==
  LET hdr == [res EXCEPT !.cacheControl = NoCacheControl,
                         !.pragma = "no-cache", !.expires = "0"]
      abs == resolve(root, IndexName)
      r   == Send(hdr, req, dir, abs, SubSeq(abs, Len(root) + 1, Len(abs)),
                  FALSE, SendFileOptions)
  IN  CASE r.kind = "end"       -> CallEnd(r.res)
        [] r.kind = "directory" -> CallNext(r.res)
        [] OTHER                -> CallNextErr(r.res, r.code)

\* the README's apiRouter, mounted on /api: it answers its own routes and
\* calls next() for any other path
ApiRoutes == {<<"users">>}

ApiHandler(res, req, mount) ==
  IF SubSeq(req.path.segs, Len(mount) + 1, Len(req.path.segs)) \in ApiRoutes
  THEN CallEnd([res EXCEPT !.body = JsonBody])
  ELSE CallNext(res)

\* --------------------------------------------------------------- pipeline
\* a layer of the router stack, as app.use(path, fn) makes it: it matches a
\* request whose path begins with prefix; wild is the wildcard of the
\* pattern after the prefix ("none", "optional" for {*path}, "required")
Layer(name, prefix, wild, root) ==
  [name |-> name, prefix |-> prefix, wild |-> wild, root |-> root]

\* LayerMatches for the pattern "/*path", whose wildcard may not be empty
LayerMatches_Required(l, path) ==
  /\ IsPrefix(l.prefix, path.segs)
  /\ l.wild \in {"required", "optional"} => Len(path.segs) > Len(l.prefix)

LayerMatches(l, path) ==
  /\ IsPrefix(l.prefix, path.segs)
  /\ l.wild = "required" => Len(path.segs) > Len(l.prefix)

\* AppUse putting the layer in front of the stack
AppUse_Prepend(stk, l) == <<l>> \o stk

\* app.use adds the layer at the end of the stack
AppUse(stk, l) == Append(stk, l)

Handle(l, res, req, dir) ==
  CASE l.name = "api"    -> ApiHandler(res, req, l.prefix)
    [] l.name = "static" -> StaticHandler(res, req, dir, l.root)
    [] OTHER             -> FallbackHandler(res, req, dir, l.root)

\* ------------------------------------------------------------------- state
VARIABLES
  distPath,   \* path.resolve(__dirname, "public")
  disk,       \* the build directory found at distPath
  stack,      \* the application's router stack
  order,      \* the registrations the bootstrap has made, in order
  thrown,     \* the Error serveStatic threw, or NoError
  listening,  \* app.listen was called
  reqs        \* the requests, by slot

vars == <<distPath, disk, stack, order, thrown, listening, reqs>>

ReqIds == 1..MaxReqs
LiveIds == 1..(IF MaxLive < MaxReqs THEN MaxLive ELSE MaxReqs)

NoError == [message |-> "", path |-> <<>>]

IdleSlot ==
  [st |-> "idle", req |-> NoReq, pos |-> 0, res |-> NewRes,
   out |-> "none", by |-> "none", code |-> 0, ran |-> <<>>]

Init ==
  /\ distPath \in {PlainDist, DottedDist}
  /\ disk \in BuildDirs
  /\ distPath = DottedDist => IndexFile \in disk.files
  /\ stack = <<>>
  /\ order = <<>>
  /\ thrown = NoError
  /\ listening = FALSE
  /\ reqs = [id \in ReqIds |-> IdleSlot]

Called(name) == \E i \in 1..Len(order) : order[i] = name

\* --------------------------------------------------------------- bootstrap
\* app.use("/api", apiRouter)
RegisterApi ==
  /\ ~listening
  /\ ~Called("api")
  /\ stack' = AppUse(stack, Layer("api", <<"api">>, "none", <<>>))
  /\ order' = Append(order, "api")
  /\ UNCHANGED <<distPath, disk, thrown, listening, reqs>>

\* ServeStatic installing its handlers before it looks for the directory
ServeStatic_CheckLast ==
  /\ ~listening
  /\ ~Called("serveStatic")
  /\ order' = Append(order, "serveStatic")
  /\ stack' = AppUse(AppUse(stack, Layer("static", <<>>, "none", distPath)),
                     Layer("fallback", <<>>, "optional", distPath))
  /\ IF ~existsSync(disk)
     THEN thrown' = [message |-> "Could not find the build directory",
                     path |-> distPath]
     ELSE UNCHANGED thrown
  /\ UNCHANGED <<distPath, disk, listening, reqs>>

\* ServeStatic installing the fallback before the static handler
ServeStatic_FallbackFirst ==
  /\ ~listening
  /\ ~Called("serveStatic")
  /\ order' = Append(order, "serveStatic")
  /\ IF ~existsSync(disk)
     THEN /\ thrown' = [message |-> "Could not find the build directory",
                        path |-> distPath]
          /\ UNCHANGED stack
     ELSE /\ stack' = AppUse(AppUse(stack,
                               Layer("fallback", <<>>, "optional", distPath)),
                             Layer("static", <<>>, "none", distPath))
          /\ UNCHANGED thrown
  /\ UNCHANGED <<distPath, disk, listening, reqs>>

\* serveStatic(app)
ServeStatic ==
  /\ ~listening
  /\ ~Called("serveStatic")
  /\ order' = Append(order, "serveStatic")
  /\ IF ~existsSync(disk)
     THEN /\ thrown' = [message |-> "Could not find the build directory",
                        path |-> distPath]
          /\ UNCHANGED stack
     ELSE /\ stack' = AppUse(AppUse(stack,
                               Layer("static", <<>>, "none", distPath)),
                             Layer("fallback", <<>>, "optional", distPath))
          /\ UNCHANGED thrown
  /\ UNCHANGED <<distPath, disk, listening, reqs>>

\* app.listen(5000, "0.0.0.0")
Listen ==
  /\ ~listening
  /\ listening' = TRUE
  /\ UNCHANGED <<distPath, disk, stack, order, thrown, reqs>>

\* ---------------------------------------------------------------- requests
Arrive(id, r) ==
  /\ listening
  /\ reqs[id].st = "idle"
  /\ reqs' = [reqs EXCEPT ![id] =
                [IdleSlot EXCEPT !.st = "flight", !.req = r, !.pos = 1]]
  /\ UNCHANGED <<distPath, disk, stack, order, thrown, listening>>

AtLayer(id) ==
  /\ reqs[id].st = "flight"
  /\ reqs[id].pos <= Len(stack)

\* the slot after its handler returned result r
After(slot, name, r) ==
  CASE r.kind = "end" ->
         [slot EXCEPT !.st = "done", !.out = "answered", !.by = name,
                      !.res = r.res, !.ran = Append(@, name)]
    [] r.kind = "next" ->
         [slot EXCEPT !.pos = @ + 1, !.res = r.res, !.ran = Append(@, name)]
    [] OTHER ->
         [slot EXCEPT !.st = "done", !.out = "error", !.by = name,
                      !.code = r.code, !.res = r.res, !.ran = Append(@, name)]

\* the router passes over a layer whose path does not match
Skip(id) ==
  /\ AtLayer(id)
  /\ ~LayerMatches(stack[reqs[id].pos], reqs[id].req.path)
  /\ reqs' = [reqs EXCEPT ![id].pos = @ + 1]
  /\ UNCHANGED <<distPath, disk, stack, order, thrown, listening>>

\* Run with one header object shared by the requests in flight
Run_SharedHeaders(id, name) ==
  /\ AtLayer(id)
  /\ stack[reqs[id].pos].name = name
  /\ LayerMatches(stack[reqs[id].pos], reqs[id].req.path)
  /\ LET r == Handle(stack[reqs[id].pos], reqs[id].res, reqs[id].req, disk)
     IN  reqs' = [j \in ReqIds |->
                    IF j = id THEN After(reqs[j], name, r)
                    ELSE IF reqs[j].st = "flight"
                    THEN [reqs[j] EXCEPT
                            !.res.cacheControl = r.res.cacheControl,
                            !.res.pragma = r.res.pragma,
                            !.res.expires = r.res.expires]
                    ELSE reqs[j]]
  /\ UNCHANGED <<distPath, disk, stack, order, thrown, listening>>

\* the router runs the handler of a matching layer
Run(id, name) ==
  /\ AtLayer(id)
  /\ stack[reqs[id].pos].name = name
  /\ LayerMatches(stack[reqs[id].pos], reqs[id].req.path)
  /\ reqs' = [reqs EXCEPT ![id] =
                After(@, name,
                      Handle(stack[reqs[id].pos], @.res, @.req, disk))]
  /\ UNCHANGED <<distPath, disk, stack, order, thrown, listening>>

RunApi(id)      == Run(id, "api")
RunStatic(id)   == Run(id, "static")
RunFallback(id) == Run(id, "fallback")

\* no layer is left: Express's final handler answers 404
Final(id) ==
  /\ reqs[id].st = "flight"
  /\ reqs[id].pos > Len(stack)
  /\ reqs' = [reqs EXCEPT ![id].st = "done", ![id].out = "unhandled"]
  /\ UNCHANGED <<distPath, disk, stack, order, thrown, listening>>

Progress(id) ==
  Skip(id) \/ RunApi(id) \/ RunStatic(id) \/ RunFallback(id) \/ Final(id)

ArriveAny(ids) ==
  \E id \in ids :
    \E r \in (IF id = 1 THEN Requests ELSE Traffic) : Arrive(id, r)

Next ==
  \/ RegisterApi
  \/ ServeStatic
  \/ Listen
  \/ ArriveAny(ReqIds)
  \/ \E id \in ReqIds : Skip(id)
  \/ \E id \in ReqIds : RunApi(id)
  \/ \E id \in ReqIds : RunStatic(id)
  \/ \E id \in ReqIds : RunFallback(id)
  \/ \E id \in ReqIds : Final(id)

Spec == Init /\ [][Next]_vars

\* the same program with the slots LiveIds in use
LiveNext ==
  \/ RegisterApi
  \/ ServeStatic
  \/ Listen
  \/ ArriveAny(LiveIds)
  \/ \E id \in LiveIds : Skip(id)
  \/ \E id \in LiveIds : RunApi(id)
  \/ \E id \in LiveIds : RunStatic(id)
  \/ \E id \in LiveIds : RunFallback(id)
  \/ \E id \in LiveIds : Final(id)

\* Node's event loop runs every pending callback
FairSpec ==
  Init /\ [][LiveNext]_vars /\ \A id \in LiveIds : WF_vars(Progress(id))

\* ------------------------------------------------------ notions of the claims
Has(seq, x) == \E i \in 1..Len(seq) : seq[i] = x

HasDirective(cc, name) == \E i \in 1..Len(cc) : cc[i].n = name

Done(id) == reqs[id].st = "done"

\* the request went through the handlers serveStatic installed
Reached(id) == Has(reqs[id].ran, "static")

\* the path names an existing file of the build directory
FileAt(path) == ~path.slash /\ IsFile(disk, path.segs)

\* ... other than the entry document
AssetAt(path) == FileAt(path) /\ path.segs # IndexFile

IndexPresent == IsFile(disk, IndexFile)

ImmutableValue == <<DA("max-age", 31536000), D("immutable")>>

IsFallbackResponse(res) ==
  /\ res.status = 200
  /\ res.body = FileBody(IndexFile)
  /\ res.cacheControl = NoCacheControl
  /\ res.pragma = "no-cache"
  /\ res.expires = "0"

\* ------------------------------------------------------------------------ C1
\* C1 as stated: every request for an existing file other than index.html is
\* answered 200 with the file's bytes and Cache-Control: max-age=31536000,
\* immutable, whatever the file name or the method.
C1_AsStated ==
  \A id \in ReqIds :
    (Done(id) /\ Reached(id) /\ AssetAt(reqs[id].req.path)) =>
      /\ reqs[id].out = "answered"
      /\ reqs[id].res.status = 200
      /\ reqs[id].res.body = FileBody(reqs[id].req.path.segs)
      /\ reqs[id].res.cacheControl = ImmutableValue

\* C1: every GET request without conditional or range headers for an existing
\* file other than index.html whose path has no dot-segment is answered by the
\* static handler, 200, with the file's bytes and Cache-Control: public,
\* max-age=31536000, immutable.
C1_AssetImmutable ==
  \A id \in ReqIds :
    ( /\ Done(id) /\ Reached(id) /\ AssetAt(reqs[id].req.path)
      /\ reqs[id].req.method = "GET" /\ reqs[id].req.cond = "none"
      /\ ~containsDotFile(reqs[id].req.path.segs) ) =>
      /\ reqs[id].out = "answered"
      /\ reqs[id].by = "static"
      /\ reqs[id].res.status = 200
      /\ reqs[id].res.body = FileBody(reqs[id].req.path.segs)
      /\ reqs[id].res.cacheControl = <<D("public")>> \o ImmutableValue

C1_Witness ==
  \E id \in ReqIds :
    /\ Done(id) /\ reqs[id].by = "static"
    /\ reqs[id].req = [method |-> "GET", path |-> AssetPath, cond |-> "none"]
    /\ reqs[id].res.body = FileBody(AssetFile)

\* ------------------------------------------------------------------------ C2
\* C2 as stated: with index.html present, every request whose path is not an
\* existing file other than index.html is answered 200 with the bytes of
\* index.html and the three no-cache headers.
C2_AsStated ==
  \A id \in ReqIds :
    ( /\ Done(id) /\ Reached(id) /\ IndexPresent
      /\ ~AssetAt(reqs[id].req.path) ) =>
      /\ reqs[id].out = "answered"
      /\ IsFallbackResponse(reqs[id].res)

\* ------------------------------------------------------------------------ C3
\* C3 as stated: every response whose body is index.html, a direct request
\* for /index.html included, has Cache-Control: no-cache, no-store,
\* must-revalidate and never max-age=31536000, immutable.
C3_AsStated ==
  \A id \in ReqIds :
    ( /\ Done(id) /\ reqs[id].out = "answered"
      /\ reqs[id].res.body.kind \in {"file", "partial"}
      /\ reqs[id].res.body.of = IndexFile ) =>
      /\ reqs[id].res.cacheControl = NoCacheControl
      /\ ~HasDirective(reqs[id].res.cacheControl, "immutable")
      /\ ~HasDirective(reqs[id].res.cacheControl, "max-age")

\* ------------------------------------------------------------------------ C4
\* C4: once serveStatic was called with the build directory missing, it has
\* thrown an error naming distPath, the stack holds neither of its handlers,
\* and no request is ever handled by the static handler or the fallback.
C4_FailFast ==
  (Called("serveStatic") /\ ~existsSync(disk)) =>
    /\ thrown.message = "Could not find the build directory"
    /\ thrown.path = distPath
    /\ \A i \in 1..Len(stack) : stack[i].name = "api"
    /\ Len(stack) = (IF Called("api") THEN 1 ELSE 0)
    /\ \A id \in ReqIds : /\ ~Has(reqs[id].ran, "static")
                          /\ ~Has(reqs[id].ran, "fallback")
                          /\ reqs[id].by \notin {"static", "fallback"}

C4_Witness ==
  /\ thrown # NoError
  /\ \E id \in ReqIds : Done(id) /\ reqs[id].req.path = AssetPath

\* ------------------------------------------------------------------------ C5
\* the API router answers the request
ApiAnswers(req) ==
  /\ IsPrefix(<<"api">>, req.path.segs)
  /\ ApiHandler(NewRes, req, <<"api">>).kind = "end"

\* C5: when serveStatic is called after the API routes are registered, a
\* request the API router answers is answered by it, never runs the fallback
\* and carries none of the fallback's headers or body.
C5_ApiNotShadowed ==
  \A id \in ReqIds :
    (order = <<"api", "serveStatic">> /\ Done(id) /\ ApiAnswers(reqs[id].req)) =>
      /\ reqs[id].out = "answered"
      /\ reqs[id].by = "api"
      /\ ~Has(reqs[id].ran, "fallback")
      /\ reqs[id].res.cacheControl = <<>>
      /\ reqs[id].res.pragma = ""
      /\ reqs[id].res.expires = ""
      /\ reqs[id].res.body = JsonBody

C5_Witness ==
  /\ order = <<"api", "serveStatic">>
  /\ Len(stack) = 3
  /\ \E id \in ReqIds : Done(id) /\ reqs[id].by = "api"

\* ------------------------------------------------------------------------ C6
\* with index.html missing, a request that runs the fallback ends in send's
\* 404 passed to next(err), never in an answer
MissingIndexFails(id) ==
  (Done(id) /\ Has(reqs[id].ran, "fallback") /\ ~IndexPresent) =>
    /\ reqs[id].out = "error"
    /\ reqs[id].by = "fallback"
    /\ reqs[id].code = 404
    /\ reqs[id].res.body = NoBody

\* C6 as stated: a missing index.html makes the fallback fail with not-found,
\* and that is the only error the two handlers pass down the pipeline.
C6_AsStated ==
  \A id \in ReqIds :
    /\ MissingIndexFails(id)
    /\ (Done(id) /\ reqs[id].out = "error") =>
         /\ reqs[id].by = "fallback"
         /\ reqs[id].code = 404
         /\ ~IndexPresent

\* C6: a missing index.html makes the fallback fail with not-found; the
\* errors the two handlers pass down are that 404, the fallback's 404 when
\* distPath has a dot-segment, and, from either handler for a file it found,
\* 412 (failed precondition) and 416 (unsatisfiable range).
C6_RequestErrors ==
  \A id \in ReqIds :
    /\ MissingIndexFails(id)
    /\ (Done(id) /\ reqs[id].out = "error") =>
         \/ /\ reqs[id].by = "fallback" /\ reqs[id].code = 404
            /\ ~IndexPresent \/ containsDotFile(distPath)
         \/ /\ reqs[id].by = "fallback" /\ IndexPresent
            /\ reqs[id].code = 412 /\ reqs[id].req.cond = "precond"
         \/ /\ reqs[id].by = "fallback" /\ IndexPresent
            /\ reqs[id].code = 416 /\ reqs[id].req.cond = "badrange"
         \/ /\ reqs[id].by = "static" /\ FileAt(reqs[id].req.path)
            /\ reqs[id].code = 412 /\ reqs[id].req.cond = "precond"
         \/ /\ reqs[id].by = "static" /\ FileAt(reqs[id].req.path)
            /\ reqs[id].code = 416 /\ reqs[id].req.cond = "badrange"

C6_Witness ==
  /\ ~IndexPresent
  /\ \E id \in ReqIds :
       /\ Done(id) /\ reqs[id].by = "fallback" /\ reqs[id].code = 404
       /\ reqs[id].req.path = IndexPath

\* ------------------------------------------------------------------------ C7
\* the outcome of a request that walks the stack from layer i with nothing
\* else going on
RECURSIVE Walk(_, _, _, _, _)
Walk(stk, i, res, req, dir) ==
  IF i > Len(stk)
  THEN [out |-> "unhandled", by |-> "none", code |-> 0, res |-> res]
  ELSE IF ~LayerMatches(stk[i], req.path)
  THEN Walk(stk, i + 1, res, req, dir)
  ELSE LET r == Handle(stk[i], res, req, dir)
       IN  CASE r.kind = "end" ->
                  [out |-> "answered", by |-> stk[i].name, code |-> 0,
                   res |-> r.res]
             [] r.kind = "next" -> Walk(stk, i + 1, r.res, req, dir)
             [] OTHER ->
                  [out |-> "error", by |-> stk[i].name, code |-> r.code,
                   res |-> r.res]

Alone(req) == Walk(stack, 1, NewRes, req, disk)

StaticFirst(id) ==
  \A k \in 1..Len(reqs[id].ran) :
    reqs[id].ran[k] = "fallback" =>
      /\ \E j \in 1..(k - 1) : reqs[id].ran[j] = "static"
      /\ k = Len(reqs[id].ran)
      /\ StaticHandler(NewRes, reqs[id].req, disk, distPath).kind = "next"

\* an asset the static handler is configured to serve: not under a
\* dot-segment
ServableAt(path) == AssetAt(path) /\ ~containsDotFile(path.segs)

\* C8 as stated: the static handler is consulted before the fallback, the
\* fallback runs only for requests the static handler did not serve, and no
\* request runs the fallback while a servable file exists at its path.
C8_AsStated ==
  \A id \in ReqIds :
    /\ StaticFirst(id)
    /\ Has(reqs[id].ran, "fallback") => ~ServableAt(reqs[id].req.path)

\* C8: the same, the last part for GET and HEAD requests.
C8_Ordered ==
  \A id \in ReqIds :
    /\ StaticFirst(id)
    /\ (Has(reqs[id].ran, "fallback") /\ reqs[id].req.method \in {"GET", "HEAD"})
         => ~ServableAt(reqs[id].req.path)

C8_Witness ==
  \E id \in ReqIds :
    /\ reqs[id].ran = <<"static", "fallback">>
    /\ reqs[id].req.method = "GET"
    /\ reqs[id].req.path = DotPath
    /\ FileAt(DotPath)

\* ----------------------------------------------------------------------- C10
\* C10: no response has both immutable and no-store or no-cache in its
\* Cache-Control; Pragma: no-cache and Expires: 0 are on a response exactly
\* when the fallback handler ran for it; a request the static handler let
\* through carries no header of the static handler.
C10_Exclusive ==
  \A id \in ReqIds :
    /\ ~ ( /\ HasDirective(reqs[id].res.cacheControl, "immutable")
           /\ \/ HasDirective(reqs[id].res.cacheControl, "no-store")
              \/ HasDirective(reqs[id].res.cacheControl, "no-cache") )
    /\ reqs[id].res.pragma = "no-cache" <=> Has(reqs[id].ran, "fallback")
    /\ reqs[id].res.expires = "0" <=> Has(reqs[id].ran, "fallback")
    /\ (Has(reqs[id].ran, "static") /\ reqs[id].by # "static") =>
         /\ ~HasDirective(reqs[id].res.cacheControl, "immutable")
         /\ ~HasDirective(reqs[id].res.cacheControl, "max-age")
         /\ ~Has(reqs[id].ran, "fallback") => reqs[id].res = NewRes

C10_Witness ==
  \E i, j \in ReqIds :
    /\ Done(i) /\ reqs[i].by = "static"
    /\ HasDirective(reqs[i].res.cacheControl, "immutable")
    /\ Done(j) /\ reqs[j].by = "fallback" /\ reqs[j].res.expires = "0"
    /\ HasDirective(reqs[j].res.cacheControl, "no-store")

\* ------------------------------------------------------------------------ C9
\* C9 as stated: with the build directory and index.html present, a request
\* that reached the two handlers ends answered by one of them.
C9_AsStated ==
  \A id \in ReqIds :
    (IndexPresent /\ Reached(id) /\ Done(id)) =>
      /\ reqs[id].out = "answered"
      /\ reqs[id].by \in {"static", "fallback"}

\* the request ended at one of the two handlers: answered by it, or failed
\* by it with next(err)
EndedHere(id) ==
  /\ Done(id)
  /\ reqs[id].by \in {"static", "fallback"}
  /\ \/ reqs[id].out = "answered"
     \/ reqs[id].out = "error" /\ reqs[id].code \in {404, 412, 416}

\* C9: with the build directory and index.html present, every request that
\* reached the two handlers (any path, / included) eventually ends there,
\* either answered by exactly one of them or failed by one of them with an
\* error (404, 412 or 416) given to next(err); none is passed on unanswered.
C9_CatchAll ==
  \A id \in LiveIds : (IndexPresent /\ Reached(id)) ~> EndedHere(id)

C9_Witness ==
  /\ IndexPresent
  /\ \E id \in ReqIds :
       /\ Done(id) /\ reqs[id].by = "fallback" /\ reqs[id].out = "answered"
       /\ reqs[id].req.path = RootPath

====
